---- MODULE Spec2Model ----
(***************************************************************************)
(* A model of src/2023_scraper.ts: the crawl loop of                        *)
(* scrapeWeightliftingData, the paginator scrapeEventResults, the writer    *)
(* saveData and the entry point.                                            *)
(*                                                                          *)
(* Text is a sequence of one-character strings, so that trim, parseFloat,   *)
(* template formatting and localeCompare are computed character by          *)
(* character.  A number is [m |-> mantissa, e |-> decimals], the decimal    *)
(* m / 10^e in lowest form (no trailing zero in the fraction).              *)
(***************************************************************************)
EXTENDS Integers, Sequences, FiniteSets, Bags, TLC

VARIABLES
    pc,           \* position of the single crawl task
    browser,      \* "none" | "open" | "closed"     (line 28, line 114)
    context,      \* "none" | "open" | "closed"     (line 32, line 113)
    eventId,      \* loop variable of line 44
    allEvents,    \* the accumulator of line 38
    eventName,    \* line 76
    eventDate,    \* line 80
    allResults,   \* the paginator's running list, line 119; results of line 84
    file,         \* entries of 2023_weightlifting_data.ts
    env,          \* the site: which of its behaviours this run exercises
    numPages,     \* the site: result pages of the event navigated to, 0 = no table
    shown,        \* the site: index of the result page now in the DOM
    target,       \* the site: index of the result page asked for by clicks
    error,        \* the exception leaving the function, "none" if none
    raised,       \* the exception thrown inside the try of line 45 in this
                  \* iteration, "none" if none
    loserPending, \* a waitForSelector of the race of line 55 is still pending
    exitCode,     \* -1 while the process runs, then 0 or 1
    visited,      \* history: the IDs page.goto was called with, in order
    slept,        \* history: a waitForTimeout(2000) completed since the last goto
    saveCalls,    \* history: number of calls of saveData
    saved,        \* history: outcome of saveData in this iteration
    readPages,    \* history: the result pages in the DOM at each page.evaluate
                  \* of this iteration
    lateElement   \* history: the race of this iteration was rejected by the
                  \* timeout of one wait, and the element of the other wait
                  \* appears within that wait's own five seconds

vars == <<pc, browser, context, eventId, allEvents, eventName, eventDate,
          allResults, file, env, numPages, shown, target, error, raised,
          loserPending, exitCode, visited, slept, saveCalls, saved, readPages,
          lateElement>>

---------------------------------------------------------------------------
(* Bounds and program constants *)

START_ID == 6178

\* The source has END_ID = 5652 (a range of 527 IDs); the model keeps START_ID
\* and shortens the range to RangeLen + 1 IDs.
RangeLen == 1

END_ID == START_ID - RangeLen

MaxPages == 2

---------------------------------------------------------------------------
(* Text *)

Digits == <<"0", "1", "2", "3", "4", "5", "6", "7", "8", "9">>

IsDigit(c) == \E i \in 1..10 : Digits[i] = c

DigitVal(c) == (CHOOSE i \in 1..10 : Digits[i] = c) - 1

\* String.prototype.trim: white space is removed from both ends.
IsSpace(c) == c \in {" ", "\t", "\n"}

RECURSIVE TrimLeft(_)
TrimLeft(s) ==
    IF s = <<>> THEN s
    ELSE IF IsSpace(Head(s)) THEN TrimLeft(Tail(s)) ELSE s

RECURSIVE TrimRight(_)
TrimRight(s) ==
    IF s = <<>> THEN s
    ELSE IF IsSpace(s[Len(s)]) THEN TrimRight(SubSeq(s, 1, Len(s) - 1)) ELSE s

trim(s) == TrimRight(TrimLeft(s))

---------------------------------------------------------------------------
(* Numbers *)

Zero == [m |-> 0, e |-> 0]

\* NaN: no decimal; the only value here whose e is not a natural number.
NaN == [m |-> 0, e |-> -1]

RECURSIVE Normalize(_, _)
Normalize(m, e) ==
    IF e > 0 /\ m % 10 = 0 THEN Normalize(m \div 10, e - 1)
    ELSE [m |-> m, e |-> e]

RECURSIVE DigitsPrefix(_)
DigitsPrefix(s) ==
    IF s = <<>> \/ ~IsDigit(Head(s)) THEN <<>>
    ELSE <<Head(s)>> \o DigitsPrefix(Tail(s))

RECURSIVE DigitsValue(_)
DigitsValue(s) ==
    IF s = <<>> THEN 0
    ELSE 10 * DigitsValue(SubSeq(s, 1, Len(s) - 1)) + DigitVal(s[Len(s)])

\* parseFloat: leading white space is skipped, then the longest prefix
\* [sign] digits [. digits] is taken; without any digit the result is NaN.
\* (Exponents and "Infinity" are outside the alphabet of the modelled cells.)
parseFloat(t) ==
    LET s    == TrimLeft(t)
        sgn  == IF s # <<>> /\ Head(s) = "-" THEN -1 ELSE 1
        s1   == IF s # <<>> /\ Head(s) \in {"-", "+"} THEN Tail(s) ELSE s
        ip   == DigitsPrefix(s1)
        r1   == SubSeq(s1, Len(ip) + 1, Len(s1))
        fp   == IF r1 # <<>> /\ Head(r1) = "." THEN DigitsPrefix(Tail(r1)) ELSE <<>>
    IN  IF Len(ip) + Len(fp) = 0
        THEN [nan |-> TRUE, val |-> Zero]
        ELSE [nan |-> FALSE,
              val |-> Normalize(sgn * DigitsValue(ip \o fp), Len(fp))]

RECURSIVE NatToText(_)
NatToText(n) ==
    IF n < 10 THEN <<Digits[n + 1]>>
    ELSE NatToText(n \div 10) \o <<Digits[(n % 10) + 1]>>

RECURSIVE Pow10(_)
Pow10(e) == IF e = 0 THEN 1 ELSE 10 * Pow10(e - 1)

RECURSIVE ZeroPad(_, _)
ZeroPad(s, n) == IF Len(s) >= n THEN s ELSE ZeroPad(<<"0">> \o s, n)

\* `${number}` in a template literal: Number::toString for a short decimal,
\* and "NaN" for NaN.
NumberToText(x) ==
    IF x = NaN THEN <<"N", "a", "N">>
    ELSE
    LET a  == IF x.m < 0 THEN -x.m ELSE x.m
        ip == NatToText(a \div Pow10(x.e))
        fp == IF x.e = 0 THEN <<>>
              ELSE <<".">> \o ZeroPad(NatToText(a % Pow10(x.e)), x.e)
    IN  (IF x.m < 0 THEN <<"-">> ELSE <<>>) \o ip \o fp

---------------------------------------------------------------------------
(* Row extraction, lines 129-151 *)

\* cells[i] of the source is 0-indexed; an index past the end is undefined.
HasCell(cells, i) == i + 1 <= Len(cells)

\* cell?.textContent ? cell.textContent.trim() : ''
getText(cells, i) ==
    IF HasCell(cells, i) /\ cells[i + 1] # <<>> THEN trim(cells[i + 1]) ELSE <<>>

\* return parseFloat(text);   without the fallback of line 135.
getNumberNoFallback(cells, i) ==
    LET text == IF HasCell(cells, i) /\ cells[i + 1] # <<>>
                THEN trim(cells[i + 1]) ELSE <<"0">>
        p    == parseFloat(text)
    IN  IF p.nan THEN NaN ELSE p.val

\* const text = cell?.textContent ? cell.textContent.trim() : '0';
\* return parseFloat(text) || 0;      (NaN and 0 are falsy)
getNumber(cells, i) ==
    LET text == IF HasCell(cells, i) /\ cells[i + 1] # <<>>
                THEN trim(cells[i + 1]) ELSE <<"0">>
        p    == parseFloat(text)
    IN  IF p.nan \/ p.val.m = 0 THEN Zero ELSE p.val

\* A mapping that reads the total from the last cell of the row.
ExtractRowTotalLast(cells) ==
    [lifter     |-> getText(cells, 3),
     bodyWeight |-> getNumber(cells, 4),
     snatch1    |-> getNumber(cells, 8),
     snatch2    |-> getNumber(cells, 9),
     snatch3    |-> getNumber(cells, 10),
     snatch     |-> getNumber(cells, 11),
     cj1        |-> getNumber(cells, 13),
     cj2        |-> getNumber(cells, 14),
     cj3        |-> getNumber(cells, 15),
     cj         |-> getNumber(cells, 12),
     total      |-> getNumber(cells, 15)]

\* The object literal of lines 138-150.
ExtractRow(cells) ==
    [lifter     |-> getText(cells, 3),
     bodyWeight |-> getNumber(cells, 4),
     snatch1    |-> getNumber(cells, 8),
     snatch2    |-> getNumber(cells, 9),
     snatch3    |-> getNumber(cells, 10),
     snatch     |-> getNumber(cells, 11),
     cj1        |-> getNumber(cells, 13),
     cj2        |-> getNumber(cells, 14),
     cj3        |-> getNumber(cells, 15),
     cj         |-> getNumber(cells, 12),
     total      |-> getNumber(cells, 13)]

---------------------------------------------------------------------------
(* saveData, lines 171-210 *)

\* String.prototype.localeCompare under the root collation, for the alphabet
\* of the modelled names: punctuation before letters, letters compared
\* without case first, and a lower-case letter before its upper-case form
\* when the names are otherwise equal.
CollationOrder == <<" ", ",", ".", "a", "b", "c">>

IsUpper(c) == c \in {"A", "B", "C"}

Lower(c) == CASE c = "A" -> "a" [] c = "B" -> "b" [] c = "C" -> "c" [] OTHER -> c

Primary(c) == CHOOSE i \in 1..Len(CollationOrder) : CollationOrder[i] = Lower(c)

RECURSIVE PrimaryCompare(_, _)
PrimaryCompare(a, b) ==
    IF a = <<>> /\ b = <<>> THEN 0
    ELSE IF a = <<>> THEN -1
    ELSE IF b = <<>> THEN 1
    ELSE IF Primary(Head(a)) < Primary(Head(b)) THEN -1
    ELSE IF Primary(Head(a)) > Primary(Head(b)) THEN 1
    ELSE PrimaryCompare(Tail(a), Tail(b))

\* Called on names of equal primary weights, hence of equal length.
RECURSIVE CaseCompare(_, _)
CaseCompare(a, b) ==
    IF a = <<>> \/ b = <<>> THEN 0
    ELSE IF ~IsUpper(Head(a)) /\ IsUpper(Head(b)) THEN -1
    ELSE IF IsUpper(Head(a)) /\ ~IsUpper(Head(b)) THEN 1
    ELSE CaseCompare(Tail(a), Tail(b))

localeCompare(a, b) ==
    LET p == PrimaryCompare(a, b) IN IF p # 0 THEN p ELSE CaseCompare(a, b)

\* A writer that serializes the event just scraped only.
LastEventResults(data) ==
    IF data = <<>> THEN <<>> ELSE data[Len(data)].results

\* data.flatMap(event => event.results)
RECURSIVE FlatMapResults(_)
FlatMapResults(data) ==
    IF data = <<>> THEN <<>>
    ELSE Head(data).results \o FlatMapResults(Tail(data))

RECURSIVE InsertByLifter(_, _)
InsertByLifter(s, x) ==
    IF s = <<>> THEN <<x>>
    ELSE IF localeCompare(Head(s).lifter, x.lifter) <= 0
         THEN <<Head(s)>> \o InsertByLifter(Tail(s), x)
         ELSE <<x>> \o s

\* A writer without the sort of line 175.
Unsorted(s) == s

\* Array.prototype.sort is stable: records of equal names keep their order.
RECURSIVE SortByLifter(_)
SortByLifter(s) ==
    IF s = <<>> THEN <<>>
    ELSE InsertByLifter(SortByLifter(SubSeq(s, 1, Len(s) - 1)), s[Len(s)])

\* One entry of the array literal, lines 180-182: the field texts in the
\* order of the template.
FormatResult(r) ==
    <<r.lifter, NumberToText(r.bodyWeight),
      NumberToText(r.snatch1), NumberToText(r.snatch2), NumberToText(r.snatch3),
      NumberToText(r.snatch),
      NumberToText(r.cj1), NumberToText(r.cj2), NumberToText(r.cj3),
      NumberToText(r.cj), NumberToText(r.total)>>

\* The entries written by writeFileSync, in file order.  (The header comment
\* and its timestamp are the same text around every list and are left out.)
saveData(data) ==
    LET sorted == SortByLifter(FlatMapResults(data))
    IN  [i \in 1..Len(sorted) |-> FormatResult(sorted[i])]

---------------------------------------------------------------------------
(* The site *)

\* The rows the result tables are made of, each a list of cell texts: a full
\* row, a row with non-numeric, empty, negative and padded cells and a cell
\* whose number is followed by a letter, and a row that ends after cell 12.
Row1 ==
    <<<<>>, <<>>, <<>>, <<"b">>, <<"8", "1", ".", "5">>, <<>>, <<>>, <<>>,
      <<"9", "5">>, <<"1", "0", "0">>, <<"-">>, <<"1", "0", "0">>,
      <<"1", "2", "0">>, <<"1", "2", "5">>, <<"1", "3", "0">>,
      <<"1", "3", "0">>>>

Row2 ==
    <<<<>>, <<>>, <<>>, <<" ", "A", " ">>, <<"D", "N", "F">>, <<>>, <<>>,
      <<>>, <<"-", "9", "0">>, <<>>, <<"9", "2">>, <<"9", "2">>, <<"0">>,
      <<"2", "5", "0">>, <<" ", "1", "1", "0">>, <<"1", "1", "x">>>>

Row3 ==
    <<<<>>, <<>>, <<>>, <<"a">>, <<"6", "0">>, <<>>, <<>>, <<>>,
      <<"4", "0">>, <<"4", "1">>, <<"4", "2">>, <<"4", "2">>, <<"5", "0">>>>

\* The rows result page p of event id shows.  Events differ in the number of
\* their pages; the pages of one event differ in their rows, and some rows
\* recur on other pages and in other events.
SitePage(id, p) ==
    LET k == (id + p) % 3
    IN  CASE k = 0 -> <<Row1>>
          [] k = 1 -> <<Row2, Row1>>
          [] OTHER -> <<Row3>>

\* Text the name and date elements may hold when they exist.
NameTexts == {<<" ", " ">>, <<" ", "O", "p", "e", "n">>}

DateTexts == {<<" ">>, <<"J", "u", "n", " ", "3">>}

\* new Date().toISOString().split('T')[0]: the clock's date.
Today == <<"2", "0", "2", "6", "-", "1", "1", "-", "0", "6">>

\* A run exercises the site along one of two lines, so that the accumulator
\* stays small.  In "fields" what one page holds varies: the name and date
\* elements are missing, blank or filled, the table body may be found empty
\* by page.evaluate, and an event has at most one result page.  In "pages"
\* the number of result pages and the moment the table is redrawn vary, and
\* the elements of a page are filled.
Envs == {"fields", "pages"}

PageCounts(e) == IF e = "pages" THEN 0..MaxPages ELSE 0..1

NameOutcomes(e) ==
    IF e = "fields"
    THEN {[throws |-> TRUE, text |-> <<>>]}
         \cup {[throws |-> FALSE, text |-> t] : t \in NameTexts}
    ELSE {[throws |-> FALSE, text |-> <<" ", "O", "p", "e", "n">>]}

DateOutcomes(e) ==
    IF e = "fields"
    THEN {[throws |-> TRUE, text |-> <<>>]}
         \cup {[throws |-> FALSE, text |-> t] : t \in DateTexts}
    ELSE {[throws |-> FALSE, text |-> <<"J", "u", "n", " ", "3">>]}

\* What a previous run may have left in the output file.
PreviousFile == <<FormatResult(ExtractRow(Row1)), FormatResult(ExtractRow(Row1))>>

---------------------------------------------------------------------------
(* scrapeWeightliftingData, lines 26-116 *)

Init ==
    /\ pc = "launch"
    /\ browser = "none"
    /\ context = "none"
    /\ eventId = START_ID
    /\ allEvents = <<>>
    /\ eventName = <<>>
    /\ eventDate = <<>>
    /\ allResults = <<>>
    /\ file \in {<<>>, PreviousFile}
    /\ env \in Envs
    /\ numPages = 0
    /\ shown = 1
    /\ target = 1
    /\ error = "none"
    /\ loserPending = FALSE
    /\ exitCode = -1
    /\ visited = <<>>
    /\ slept = FALSE
    /\ saveCalls = 0
    /\ saved = "none"
    /\ raised = "none"
    /\ readPages = <<>>
    /\ lateElement = FALSE

\* A loop that stops one ID early: eventId > END_ID.
LoopHeadExclusive(id) == IF id > END_ID THEN "goto" ELSE "ctxClose"

\* A loop after which the function returns at once, without a finally block.
LoopHeadNoFinally(id) == IF id >= END_ID THEN "goto" ELSE "resolved"

\* The for statement of line 44: the body runs while eventId >= END_ID, and
\* the finally block follows the loop.
LoopHead(id) == IF id >= END_ID THEN "goto" ELSE "ctxClose"

\* eventId-- of line 44, then the loop condition.
NextIteration ==
    /\ eventId' = eventId - 1
    /\ pc' = LoopHead(eventId - 1)

\* chromium.launch, line 28.
Launch ==
    /\ pc = "launch"
    /\ \E ok \in BOOLEAN :
         IF ok THEN /\ browser' = "open"
                    /\ pc' = "newContext"
                    /\ error' = error
               ELSE /\ browser' = browser
                    /\ pc' = "rejected"
                    /\ error' = "launch"
    /\ UNCHANGED <<context, eventId, allEvents, eventName, eventDate,
                   allResults, file, env, numPages, shown, target,
                   loserPending, exitCode, visited, slept, saveCalls, saved,
                   raised, readPages, lateElement>>

\* browser.newContext, line 32: outside the try statement of line 40.
NewContext ==
    /\ pc = "newContext"
    /\ \E ok \in BOOLEAN :
         IF ok THEN /\ context' = "open"
                    /\ pc' = "newPage"
                    /\ error' = error
               ELSE /\ context' = context
                    /\ pc' = "rejected"
                    /\ error' = "newContext"
    /\ UNCHANGED <<browser, eventId, allEvents, eventName, eventDate,
                   allResults, file, env, numPages, shown, target,
                   loserPending, exitCode, visited, slept, saveCalls, saved,
                   raised, readPages, lateElement>>

\* context.newPage, line 37, then lines 38-44 up to the first loop test.
NewPage ==
    /\ pc = "newPage"
    /\ \E ok \in BOOLEAN :
         IF ok THEN /\ pc' = LoopHead(START_ID)
                    /\ error' = error
                    /\ eventId' = START_ID
                    /\ allEvents' = <<>>
               ELSE /\ pc' = "rejected"
                    /\ error' = "newPage"
                    /\ UNCHANGED <<eventId, allEvents>>
    /\ UNCHANGED <<browser, context, eventName, eventDate, allResults, file,
                   env, numPages, shown, target, loserPending, exitCode,
                   visited, slept, saveCalls, saved, raised, readPages,
                   lateElement>>

\* page.goto, lines 46-52.  On success the site answers with an event of some
\* number of result pages, showing the first.
Goto ==
    /\ pc = "goto"
    /\ visited' = Append(visited, eventId)
    /\ slept' = FALSE
    /\ saved' = "none"
    /\ allResults' = <<>>
    /\ eventName' = <<>>
    /\ eventDate' = <<>>
    /\ \/ /\ \E n \in PageCounts(env) : numPages' = n
          /\ shown' = 1
          /\ target' = 1
          /\ pc' = "race"
          /\ raised' = "none"
       \/ /\ UNCHANGED <<numPages, shown, target>>
          /\ pc' = "catch"
          /\ raised' = "goto"
    /\ readPages' = <<>>
    /\ lateElement' = FALSE
    /\ UNCHANGED <<browser, context, eventId, allEvents, file, env, error,
                   loserPending, exitCode, saveCalls>>

\* The outcomes of Promise.race of lines 55-58: the wait that settles first
\* decides, a resolved wait giving an element and a rejected one false.  The
\* table wait can resolve only if the event has a results table.
RaceOutcomes(n) ==
    (IF n >= 1 THEN {"table"} ELSE {}) \cup {"marker", "tableTimeout", "markerTimeout"}

hasContent(first) == first \in {"table", "marker"}

\* After the race was rejected by the timeout `first`, the other wait of
\* lines 56-57 is still running: its element appears within its five seconds
\* (TRUE) or it times out as well (FALSE).  Only an event with a results
\* table shows a table row.
OtherWait(first, n) ==
    IF first = "tableTimeout" \/ n >= 1 THEN {FALSE, TRUE} ELSE {FALSE}

\* Lines 55-63.  The wait that did not settle first is still pending.
Race ==
    /\ pc = "race"
    /\ \E first \in RaceOutcomes(numPages) :
         IF hasContent(first)
         THEN /\ pc' = "hasTable"
              /\ eventId' = eventId
              /\ lateElement' = FALSE
         ELSE /\ NextIteration
              /\ lateElement' \in OtherWait(first, numPages)
    /\ loserPending' = TRUE
    /\ UNCHANGED <<browser, context, allEvents, eventName, eventDate,
                   allResults, file, env, numPages, shown, target, error,
                   exitCode, visited, slept, saveCalls, saved, raised,
                   readPages>>

\* The re-check started without await: the crawl goes on while its wait is
\* outstanding.
HasTableNotAwaited ==
    /\ pc = "hasTable"
    /\ pc' = "evalName"
    /\ loserPending' = TRUE
    /\ UNCHANGED <<browser, context, eventId, allEvents, eventName, eventDate,
                   allResults, file, env, numPages, shown, target, error,
                   exitCode, visited, slept, saveCalls, saved, raised,
                   readPages, lateElement>>

\* Lines 66-73.
HasTable ==
    /\ pc = "hasTable"
    /\ \/ /\ numPages >= 1
          /\ pc' = "evalName"
          /\ eventId' = eventId
       \/ NextIteration
    /\ UNCHANGED <<browser, context, allEvents, eventName, eventDate,
                   allResults, file, env, numPages, shown, target, error,
                   loserPending, exitCode, visited, slept, saveCalls, saved,
                   raised, readPages, lateElement>>

DefaultName(id) == <<"E", "v", "e", "n", "t", " ">> \o NatToText(id)

\* page.$eval(sel, el => el.textContent?.trim() || '').catch(() => fallback):
\* the fallback is taken when $eval rejects, that is when no element matches.
EvalOrFallback(o, fallback) == IF o.throws THEN fallback ELSE trim(o.text)

\* Lines 76-78.
EvalName ==
    /\ pc = "evalName"
    /\ \E o \in NameOutcomes(env) : eventName' = EvalOrFallback(o, DefaultName(eventId))
    /\ pc' = "evalDate"
    /\ UNCHANGED <<browser, context, eventId, allEvents, eventDate,
                   allResults, file, env, numPages, shown, target, error,
                   loserPending, exitCode, visited, slept, saveCalls, saved,
                   raised, readPages, lateElement>>

\* Lines 80-82, then the call of line 84 up to the loop test of line 122.
EvalDate ==
    /\ pc = "evalDate"
    /\ \E o \in DateOutcomes(env) : eventDate' = EvalOrFallback(o, Today)
    /\ allResults' = <<>>
    /\ pc' = "pgWait"
    /\ UNCHANGED <<browser, context, eventId, allEvents, eventName, file, env,
                   numPages, shown, target, error, loserPending, exitCode,
                   visited, slept, saveCalls, saved, raised, readPages,
                   lateElement>>

---------------------------------------------------------------------------
(* scrapeEventResults, lines 118-169 *)

\* page.evaluate of lines 127-152 on a table body of the given rows.
ExtractRows(rows) == [i \in 1..Len(rows) |-> ExtractRow(rows[i])]

\* What document.querySelectorAll('table tbody tr') finds: the rows of the
\* page in the DOM, or none when the table body was emptied after the wait
\* of line 124.
DomRows(e, id, p) ==
    IF e = "fields" THEN {SitePage(id, p), <<>>} ELSE {SitePage(id, p)}

\* page.$('button[aria-label="Next page"]:not([disabled])'), line 157: the
\* control is enabled while the page asked for is not the last.
nextButton(t, n) == t < n

\* page.waitForSelector('table tbody tr', {timeout: 30000}), line 124.  The
\* wait resolves on rows that are in the DOM; it is rejected when none
\* appears in time, and the rejection is not caught in this function.
PgWait ==
    /\ pc = "pgWait"
    /\ \/ /\ pc' = "pgEval"
          /\ raised' = raised
       \/ /\ pc' = "catch"
          /\ raised' = "pgWait"
    /\ UNCHANGED <<browser, context, eventId, allEvents, eventName, eventDate,
                   allResults, file, env, numPages, shown, target, error,
                   loserPending, exitCode, visited, slept, saveCalls, saved,
                   readPages, lateElement>>

\* Lines 127-154.
PgEval ==
    /\ pc = "pgEval"
    /\ \E rows \in DomRows(env, eventId, shown) :
         allResults' = allResults \o ExtractRows(rows)
    /\ readPages' = Append(readPages, shown)
    /\ pc' = "pgNext"
    /\ UNCHANGED <<browser, context, eventId, allEvents, eventName, eventDate,
                   file, env, numPages, shown, target, error, loserPending,
                   exitCode, visited, slept, saveCalls, saved, raised,
                   lateElement>>

\* Lines 157-165: with an enabled control, the click and the wait of one
\* second; without, hasNextPage = false, the loop ends and line 168 returns.
PgNext ==
    /\ pc = "pgNext"
    /\ IF nextButton(target, numPages)
       THEN /\ target' = target + 1
            /\ pc' = "pgRewait"
       ELSE /\ target' = target
            /\ pc' = "append"
    /\ UNCHANGED <<browser, context, eventId, allEvents, eventName, eventDate,
                   allResults, file, env, numPages, shown, error,
                   loserPending, exitCode, visited, slept, saveCalls, saved,
                   raised, readPages, lateElement>>

\* A paginator that catches the timeout of line 162 and returns the rows it
\* has.
PgRewaitSwallows ==
    /\ pc = "pgRewait"
    /\ \/ /\ pc' = "pgWait"
          /\ raised' = raised
       \/ /\ pc' = "append"
          /\ raised' = "pgWait"
    /\ UNCHANGED <<browser, context, eventId, allEvents, eventName, eventDate,
                   allResults, file, env, numPages, shown, target, error,
                   loserPending, exitCode, visited, slept, saveCalls, saved,
                   readPages, lateElement>>

\* Line 162: the rows of the page read before satisfy this wait as well as
\* those of the page asked for.
PgRewait ==
    /\ pc = "pgRewait"
    /\ \/ /\ pc' = "pgWait"
          /\ raised' = raised
       \/ /\ pc' = "catch"
          /\ raised' = "pgWait"
    /\ UNCHANGED <<browser, context, eventId, allEvents, eventName, eventDate,
                   allResults, file, env, numPages, shown, target, error,
                   loserPending, exitCode, visited, slept, saveCalls, saved,
                   readPages, lateElement>>

\* The site redraws the table with the page asked for, at a time of its own.
Redraw ==
    /\ pc \in {"pgRewait", "pgWait", "pgEval"}
    /\ shown < target
    /\ shown' = target
    /\ UNCHANGED <<pc, browser, context, eventId, allEvents, eventName,
                   eventDate, allResults, file, env, numPages, target, error,
                   loserPending, exitCode, visited, slept, saveCalls, saved,
                   raised, readPages, lateElement>>

---------------------------------------------------------------------------
(* Lines 84-116 and the entry point *)

\* An append without the test of line 86.
AppendsAlways(results) == TRUE

\* if (results.length > 0), line 86.
ShouldAppend(results) == Len(results) > 0

EventData(id, name, date, results) ==
    [id |-> id, name |-> name, date |-> date, results |-> results]

\* What fs.writeFileSync leaves when it throws: the file as it was (it could
\* not be opened) or the file emptied (opened, then the write failed).
FailedWrite(old) == {old, <<>>}

\* A sort applied to the results of every event of the accumulator itself.
SortedInPlace(data) ==
    [i \in DOMAIN data |->
        [data[i] EXCEPT !.results = SortByLifter(data[i].results)]]

\* The accumulator as a call of saveData leaves it.  Array.prototype.sort
\* sorts its receiver in place; the receiver in line 175 is the array that
\* flatMap built in lines 173-174, so no array of `data` is written.
AfterSave(data) == data

\* An insertion at the front of the accumulator.
unshift(events, event) == <<event>> \o events

\* allEvents.push, line 87.
push(events, event) == Append(events, event)

\* The writer called before the push: the file, written or not, is made of
\* the accumulator without the event, and the event is kept only when the
\* write succeeds.
SaveThenAppend ==
    /\ pc = "append"
    /\ IF ShouldAppend(allResults)
       THEN /\ saveCalls' = saveCalls + 1
            /\ \/ /\ file' = saveData(allEvents)
                  /\ allEvents' =
                         push(allEvents,
                              EventData(eventId, eventName, eventDate,
                                        allResults))
                  /\ saved' = "ok"
                  /\ pc' = "delay"
                  /\ raised' = raised
               \/ /\ file' \in FailedWrite(file)
                  /\ allEvents' = allEvents
                  /\ saved' = "failed"
                  /\ pc' = "catch"
                  /\ raised' = "write"
       ELSE /\ pc' = "delay"
            /\ UNCHANGED <<allEvents, saveCalls, file, saved, raised>>
    /\ UNCHANGED <<browser, context, eventId, eventName, eventDate,
                   allResults, env, numPages, shown, target, error,
                   loserPending, exitCode, visited, slept, readPages,
                   lateElement>>

\* Lines 86-96: push and saveData run without an await between them; the
\* sort of line 175 has run when writeFileSync throws.
AppendAndSave ==
    /\ pc = "append"
    /\ IF ShouldAppend(allResults)
       THEN /\ allEvents' =
                   AfterSave(push(allEvents,
                                  EventData(eventId, eventName, eventDate,
                                            allResults)))
            /\ saveCalls' = saveCalls + 1
            /\ \/ /\ file' = saveData(allEvents')
                  /\ saved' = "ok"
                  /\ pc' = "delay"
                  /\ raised' = raised
               \/ /\ file' \in FailedWrite(file)
                  /\ saved' = "failed"
                  /\ pc' = "catch"
                  /\ raised' = "write"
       ELSE /\ pc' = "delay"
            /\ UNCHANGED <<allEvents, saveCalls, file, saved, raised>>
    /\ UNCHANGED <<browser, context, eventId, eventName, eventDate,
                   allResults, env, numPages, shown, target, error,
                   loserPending, exitCode, visited, slept, readPages,
                   lateElement>>

\* page.waitForTimeout(2000), line 99, inside the try statement of line 45.
Delay ==
    /\ pc = "delay"
    /\ \/ /\ slept' = TRUE
          /\ raised' = raised
          /\ NextIteration
       \/ /\ slept' = slept
          /\ raised' = "delay"
          /\ pc' = "catch"
          /\ eventId' = eventId
    /\ UNCHANGED <<browser, context, allEvents, eventName, eventDate,
                   allResults, file, env, numPages, shown, target, error,
                   loserPending, exitCode, visited, saveCalls, saved,
                   readPages, lateElement>>

\* A handler that ends the loop (break) where the source continues.
CatchBreaks ==
    /\ pc = "catch"
    /\ \/ /\ slept' = TRUE
          /\ error' = error
          /\ pc' = "ctxClose"
       \/ /\ slept' = slept
          /\ error' = "catchDelay"
          /\ pc' = "outerCatch"
    /\ UNCHANGED <<browser, context, eventId, allEvents, eventName, eventDate,
                   allResults, file, env, numPages, shown, target,
                   loserPending, exitCode, visited, saveCalls, saved, raised,
                   readPages, lateElement>>

\* The catch clause of lines 101-106.  Its waitForTimeout is inside no inner
\* try statement: when it rejects, the exception reaches line 109.
Catch ==
    /\ pc = "catch"
    /\ \/ /\ slept' = TRUE
          /\ error' = error
          /\ NextIteration
       \/ /\ slept' = slept
          /\ error' = "catchDelay"
          /\ pc' = "outerCatch"
          /\ eventId' = eventId
    /\ UNCHANGED <<browser, context, allEvents, eventName, eventDate,
                   allResults, file, env, numPages, shown, target,
                   loserPending, exitCode, visited, saveCalls, saved, raised,
                   readPages, lateElement>>

\* Lines 109-111: log and rethrow; the finally block follows.
OuterCatch ==
    /\ pc = "outerCatch"
    /\ pc' = "ctxClose"
    /\ UNCHANGED <<browser, context, eventId, allEvents, eventName, eventDate,
                   allResults, file, env, numPages, shown, target, error,
                   loserPending, exitCode, visited, slept, saveCalls, saved,
                   raised, readPages, lateElement>>

\* context.close, line 113.  When it rejects, line 114 is not reached.
ContextClose ==
    /\ pc = "ctxClose"
    /\ \/ /\ context' = "closed"
          /\ pc' = "browserClose"
          /\ error' = error
       \/ /\ context' = context
          /\ pc' = "rejected"
          /\ error' = "contextClose"
    /\ UNCHANGED <<browser, eventId, allEvents, eventName, eventDate,
                   allResults, file, env, numPages, shown, target,
                   loserPending, exitCode, visited, slept, saveCalls, saved,
                   raised, readPages, lateElement>>

\* browser.close, line 114, then the end of the function: the promise is
\* rejected if an exception is in flight and resolved otherwise.
BrowserClose ==
    /\ pc = "browserClose"
    /\ \/ /\ browser' = "closed"
          /\ pc' = IF error = "none" THEN "resolved" ELSE "rejected"
          /\ error' = error
       \/ /\ browser' = browser
          /\ pc' = "rejected"
          /\ error' = "browserClose"
    /\ UNCHANGED <<context, eventId, allEvents, eventName, eventDate,
                   allResults, file, env, numPages, shown, target,
                   loserPending, exitCode, visited, slept, saveCalls, saved,
                   raised, readPages, lateElement>>

\* Lines 212-223: process.exit(0) from then, process.exit(1) from catch.
Exit ==
    /\ pc \in {"resolved", "rejected"}
    /\ exitCode' = IF pc = "resolved" THEN 0 ELSE 1
    /\ pc' = "exited"
    /\ UNCHANGED <<browser, context, eventId, allEvents, eventName, eventDate,
                   allResults, file, env, numPages, shown, target, error,
                   loserPending, visited, slept, saveCalls, saved, raised,
                   readPages, lateElement>>

\* The wait that lost the race of line 55 settles: it finds its element, or
\* its five seconds pass.
LoserSettles ==
    /\ loserPending
    /\ pc # "exited"
    /\ loserPending' = FALSE
    /\ UNCHANGED <<pc, browser, context, eventId, allEvents, eventName,
                   eventDate, allResults, file, env, numPages, shown, target,
                   error, exitCode, visited, slept, saveCalls, saved, raised,
                   readPages, lateElement>>

Next ==
    \/ Launch
    \/ NewContext
    \/ NewPage
    \/ Goto
    \/ Race
    \/ HasTable
    \/ EvalName
    \/ EvalDate
    \/ PgWait
    \/ PgEval
    \/ PgNext
    \/ PgRewait
    \/ Redraw
    \/ AppendAndSave
    \/ Delay
    \/ Catch
    \/ OuterCatch
    \/ ContextClose
    \/ BrowserClose
    \/ Exit
    \/ LoserSettles

Spec == Init /\ [][Next]_vars

\* The steps of the crawl task and of the entry point that end an awaited
\* call of the browser, a navigation, a wait or a delay, or that follow
\* without suspension.
AwaitedStep ==
    \/ Launch
    \/ NewContext
    \/ NewPage
    \/ Goto
    \/ Race
    \/ HasTable
    \/ EvalName
    \/ EvalDate
    \/ PgWait
    \/ PgNext
    \/ PgRewait
    \/ Delay
    \/ Catch
    \/ OuterCatch
    \/ ContextClose
    \/ BrowserClose
    \/ Exit

\* The crawl task leaves page.evaluate of line 127: a step of PgEval, the
\* only action that takes the task from "pgEval" to "pgNext"; it is enabled
\* at that position whatever the page holds.
Evaluated == pc = "pgEval" /\ pc' = "pgNext"

\* The crawl task leaves lines 86-96, which run without suspension: a step
\* of AppendAndSave, enabled at that position whatever the results are.
Appended == pc = "append" /\ pc' \in {"delay", "catch"}

\* Every navigation and every wait settles, resolved or rejected, and the
\* task is resumed; code that does not suspend runs on.  Nothing is assumed
\* of the site redrawing its table or of the wait that lost the race.
FairSpec ==
    Spec /\ WF_vars(AwaitedStep) /\ WF_pc(Evaluated) /\ WF_pc(Appended)

---------------------------------------------------------------------------
(* Properties *)

AfterLoop == {"outerCatch", "ctxClose", "browserClose", "resolved", "rejected", "exited"}

Finished == {"resolved", "rejected", "exited"}

\* C1: on every exit path of scrapeWeightliftingData the context and the
\* browser that were acquired are released, the context before the browser:
\* once the function has returned or thrown, neither is still open.
C1_ReleasedOnEveryExit ==
    /\ browser = "closed" => context = "closed"
    /\ pc \in Finished => browser # "open" /\ context # "open"

\* C2, as stated: an exception raised while an ID is processed never aborts
\* the crawl, so once one was raised the loop is left only with the range
\* exhausted.
C2_NeverAbortsCrawl ==
    (raised # "none" /\ pc \in AfterLoop) => eventId < END_ID

\* C2, amended: every exception raised inside the try of line 45 puts control
\* in the per-event handler with the ID unchanged, and the handler is left
\* either to the next lower ID (to the end of the loop after END_ID), or, when
\* the handler's own delay throws, to the outer catch with that exception.
C2_CaughtPerEvent ==
    [][ /\ (raised' # raised /\ raised' # "none")
            => (pc' = "catch" /\ eventId' = eventId /\ error' = "none")
        /\ (pc = "catch" /\ pc' # "catch")
            => \/ /\ eventId' = eventId - 1
                  /\ pc' = (IF eventId' >= END_ID THEN "goto" ELSE "ctxClose")
                  /\ error' = "none"
               \/ /\ eventId' = eventId
                  /\ pc' = "outerCatch"
                  /\ error' = "catchDelay"
      ]_vars

\* The write of the previous ID threw, was caught, and the loop stands at the
\* navigation to the next ID.
C2_Witness == pc = "goto" /\ saved = "failed" /\ raised = "write" /\ eventId < START_ID

\* C3: when the loop navigates to an ID after the first, a 2-second delay has
\* completed since the previous navigation, whatever the previous iteration's
\* outcome.
C3_DelayBeforeNextId == (pc = "goto" /\ eventId < START_ID) => slept

\* C4: an event is in the accumulator, and the writer was called for it,
\* exactly when the paginator returned a non-empty list: every accumulated
\* event has results, the writer was called once per append, an iteration
\* that wrote appended the event just scraped, and an iteration that did not
\* write (empty list, skip, or an exception before the append) appended
\* nothing.
C4_AppendedIffNonEmpty ==
    /\ \A i \in DOMAIN allEvents : allEvents[i].results # <<>>
    /\ saveCalls = Len(allEvents)
    /\ pc = "delay" => (saved = "ok" <=> allResults # <<>>)
    /\ saved # "none" =>
          /\ allResults # <<>>
          /\ allEvents # <<>>
          /\ allEvents[Len(allEvents)] =
                [id |-> visited[Len(visited)], name |-> eventName,
                 date |-> eventDate, results |-> allResults]
    /\ (saved = "none" /\ visited # <<>>) =>
          \A i \in DOMAIN allEvents : allEvents[i].id # visited[Len(visited)]
    /\ raised \in {"goto", "pgWait"} => saved = "none"

\* One event was appended and written, and the next ID's event came back
\* with no rows and was dropped.
C4_Witness ==
    /\ pc = "delay"
    /\ Len(visited) = 2
    /\ Len(allEvents) = 1
    /\ allResults = <<>>
    /\ saved = "none"
    /\ saveCalls = 1

\* C5: navigation goes to START_ID, START_ID - 1, ... in this order, never
\* below END_ID, each ID once; and when the function ends without an
\* exception having escaped the per-event catch, every ID down to END_ID was
\* navigated to.
C5_VisitsRangeDescending ==
    /\ \A i \in DOMAIN visited :
          visited[i] = START_ID - (i - 1) /\ visited[i] >= END_ID
    /\ ((pc = "ctxClose" /\ error = "none") \/ pc = "resolved" \/ exitCode = 0)
          => Len(visited) = START_ID - END_ID + 1

C5_Witness ==
    pc = "resolved" /\ visited # <<>> /\ visited[Len(visited)] = END_ID

\* C6: when the paginator returns, it has read each result page of the event
\* exactly once, in page order: the rows extracted after a click on the next
\* control are those of the following page.
C6_EachPageReadOnce ==
    pc = "append" => readPages = [i \in 1..numPages |-> i]

\* C7, as stated: after a timeout of a paginator wait the event is not
\* appended, nothing is written, and the crawl continues with the next ID,
\* so the loop is left only with the range exhausted.
C7_TimeoutContinuesCrawl ==
    raised = "pgWait" =>
       /\ saved = "none"
       /\ \A i \in DOMAIN allEvents : allEvents[i].id # eventId
       /\ pc \in AfterLoop => eventId < END_ID

\* C7, amended: a timeout of the 30-second wait in the paginator is not
\* caught there and puts control in the per-event handler; from then until
\* the next navigation the accumulator and the file are unchanged and the
\* writer is not called; and the handler goes on to the next ID unless its
\* own delay throws, in which case that exception reaches the outer catch.
C7_TimeoutAbortsOnlyEvent ==
    [][ /\ (raised' = "pgWait" /\ raised # "pgWait")
            => (pc \in {"pgWait", "pgRewait"} /\ pc' = "catch")
        /\ raised' = "pgWait"
            => (allEvents' = allEvents /\ file' = file /\ saveCalls' = saveCalls)
        /\ (raised = "pgWait" /\ pc = "catch" /\ pc' # "catch")
            => \/ /\ eventId' = eventId - 1
                  /\ pc' = (IF eventId' >= END_ID THEN "goto" ELSE "ctxClose")
               \/ /\ pc' = "outerCatch"
                  /\ error' = "catchDelay"
      ]_vars

\* A wait timed out on a later page, with rows of earlier pages collected;
\* they were dropped and the loop stands at the navigation to the next ID.
C7_Witness ==
    /\ pc = "goto"
    /\ raised = "pgWait"
    /\ allResults # <<>>
    /\ \A i \in DOMAIN allEvents : allEvents[i].id # eventId + 1

\* C8: no event in the accumulator has an empty name or an empty date.
C8_NeverEmptyField ==
    \A i \in DOMAIN allEvents :
        allEvents[i].name # <<>> /\ allEvents[i].date # <<>>

\* The positions <<event, row>> of the records in the accumulator.
RecordPositions ==
    UNION {{<<i, j>> : j \in DOMAIN allEvents[i].results} : i \in DOMAIN allEvents}

RecordAt(p) == allEvents[p[1]].results[p[2]]

\* The records of the accumulator, event after event.
RECURSIVE RecordsFrom(_)
RecordsFrom(i) ==
    IF i > Len(allEvents) THEN <<>>
    ELSE allEvents[i].results \o RecordsFrom(i + 1)

\* s without its first element equal to e.
RECURSIVE WithoutOne(_, _)
WithoutOne(s, e) ==
    IF s = <<>> THEN <<>>
    ELSE IF Head(s) = e THEN Tail(s)
    ELSE <<Head(s)>> \o WithoutOne(Tail(s), e)

\* The entries es are, up to order, exactly the entries of the records rs.
RECURSIVE SameEntries(_, _)
SameEntries(es, rs) ==
    IF rs = <<>> THEN es = <<>>
    ELSE LET e == FormatResult(Head(rs))
         IN  /\ \E k \in DOMAIN es : es[k] = e
             /\ SameEntries(WithoutOne(es, e), Tail(rs))

\* C9: when a write has completed, the file holds one entry per record of
\* the accumulator, across all events, and nothing else: as a multiset, the
\* entries of the file are the entries of the accumulated records, a record
\* that occurs twice giving two entries.
C9_FileHoldsAccumulator ==
    (pc = "delay" /\ saved = "ok") => SameEntries(file, RecordsFrom(1))

\* A write completed over the content of an earlier write, with the same
\* record in two events.
C9_Witness ==
    /\ saved = "ok"
    /\ Len(allEvents) >= 2
    /\ \E p, q \in RecordPositions : p[1] # q[1] /\ RecordAt(p) = RecordAt(q)

\* C10: the entries of the output file are in non-decreasing order of lifter
\* name under localeCompare.
C10_FileSortedByLifter ==
    \A k \in 1..(Len(file) - 1) : localeCompare(file[k][1], file[k + 1][1]) <= 0

\* A write completed for an accumulator whose records, in scrape order, are
\* not in order of lifter name.
C10_Witness ==
    /\ saved = "ok"
    /\ \E p, q \in RecordPositions :
          /\ p[1] < q[1] \/ (p[1] = q[1] /\ p[2] < q[2])
          /\ localeCompare(RecordAt(p).lifter, RecordAt(q).lifter) > 0

\* C11: a call of saveData reads the accumulator without changing it.  The
\* step that calls it leaves the accumulator as the push before the call made
\* it: the events held before, in their order, followed by the event of this
\* id with its name, its date and the records in the order the paginator
\* returned them; whether the write succeeds or throws, of the data of the
\* run only the file changes.
C11_SaveLeavesAccumulator ==
    [][saveCalls' # saveCalls =>
          /\ allEvents' = allEvents \o
                 <<[id |-> eventId, name |-> eventName, date |-> eventDate,
                    results |-> allResults]>>
          /\ UNCHANGED <<eventId, eventName, eventDate, allResults>>]_vars

\* A write completed for a second event whose records, in the order they
\* were scraped, are not in the order of the file.
C11_Witness ==
    /\ pc = "delay"
    /\ saved = "ok"
    /\ Len(allEvents) = 2
    /\ allEvents[2].results = allResults
    /\ \E j \in 1..(Len(allResults) - 1) :
          localeCompare(allResults[j].lifter, allResults[j + 1].lifter) > 0

\* The exception that ended the run was thrown by line 28, 32 or 37, before
\* the try statement of line 40: its finally block has not run.
CleanupSkipped == error \in {"launch", "newContext", "newPage"}

\* C12: the process exits with status 1 exactly when the launch, the context
\* or page creation or the teardown failed or an exception escaped the
\* per-event catch, and with status 0 otherwise; and once a browser has been
\* launched the process exits only after the cleanup block has run.
C12_ExitAfterCleanup ==
    /\ exitCode \in {-1, 0, 1}
    /\ exitCode = 0 => error = "none"
    /\ exitCode = 1 =>
          error \in {"launch", "newContext", "newPage", "contextClose",
                     "browserClose", "catchDelay"}
    /\ (exitCode # -1 /\ browser # "none") => ~CleanupSkipped

\* The first clean and jerk and the total of record r are the same number,
\* and for the two rows whose cells 12 and 13 differ they are the number of
\* cell 13 while the best clean and jerk is the number of cell 12.
TotalIsFirstCj(r) ==
    /\ r.total = r.cj1
    /\ r.lifter = <<"b">> =>
          r.cj = [m |-> 120, e |-> 0] /\ r.total = [m |-> 125, e |-> 0]
    /\ r.lifter = <<"A">> =>
          r.cj = Zero /\ r.total = [m |-> 250, e |-> 0]

\* C13: every record takes cj from cell 12 and both cj1 and total from cell
\* 13, so that total equals cj1 in every record the paginator returned, in
\* every record of the accumulator and in every entry of the file.
C13_TotalEqualsFirstCj ==
    /\ \A j \in DOMAIN allResults : TotalIsFirstCj(allResults[j])
    /\ \A p \in RecordPositions : TotalIsFirstCj(RecordAt(p))
    /\ \A k \in DOMAIN file : file[k][11] = file[k][7]

\* A write completed with the record of the row whose cell 13 reads "250".
C13_Witness ==
    /\ saved = "ok"
    /\ \E p \in RecordPositions : RecordAt(p).lifter = <<"A">>
    /\ \E k \in DOMAIN file :
          /\ file[k][1] = <<"A">>
          /\ file[k][7] = <<"2", "5", "0">>
          /\ file[k][11] = <<"2", "5", "0">>

\* The numeric fields of a record and the cells they are read from.
NumberCells ==
    {<<"bodyWeight", 4>>, <<"snatch1", 8>>, <<"snatch2", 9>>,
     <<"snatch3", 10>>, <<"snatch", 11>>, <<"cj1", 13>>, <<"cj2", 14>>,
     <<"cj3", 15>>, <<"cj", 12>>, <<"total", 13>>}

\* The value x is a number: a decimal, not NaN.
IsNumber(x) == x.m \in Int /\ x.e \in Nat

\* Text t, trimmed, is a decimal numeral as a whole: an optional sign, then
\* digits with at most one point among them.
IsNumericText(t) ==
    LET s  == trim(t)
        s1 == IF s # <<>> /\ Head(s) \in {"-", "+"} THEN Tail(s) ELSE s
    IN  /\ \E k \in DOMAIN s1 : IsDigit(s1[k])
        /\ \A k \in DOMAIN s1 : IsDigit(s1[k]) \/ s1[k] = "."
        /\ \A j, k \in DOMAIN s1 : (s1[j] = "." /\ s1[k] = ".") => j = k

\* Text t, trimmed, begins with a decimal numeral: after an optional sign
\* comes a digit, or a point and a digit.
StartsWithNumber(t) ==
    LET s  == trim(t)
        s1 == IF s # <<>> /\ Head(s) \in {"-", "+"} THEN Tail(s) ELSE s
    IN  /\ s1 # <<>>
        /\ \/ IsDigit(s1[1])
           \/ s1[1] = "." /\ Len(s1) >= 2 /\ IsDigit(s1[2])

\* The rows of the page the paginator has just read, and the records it
\* made of them, where the table body was there to read.
LastRows == SitePage(eventId, readPages[Len(readPages)])

LastRecords ==
    SubSeq(allResults, Len(allResults) - Len(LastRows) + 1, Len(allResults))

JustRead == pc = "pgNext" /\ env = "pages"

\* C14 as stated: every numeric field of a record is a number, and it is 0
\* whenever its cell does not exist or the text of its cell is empty or not
\* numeric.
C14_ZeroForNonNumeric ==
    JustRead =>
        \A k \in DOMAIN LastRows : \A fc \in NumberCells :
            LET cells == LastRows[k]
                x     == LastRecords[k][fc[1]]
            IN  /\ IsNumber(x)
                /\ (~HasCell(cells, fc[2]) \/ ~IsNumericText(cells[fc[2] + 1]))
                      => x = Zero

\* C14, amended: every numeric field of a record is a number, and it is 0
\* whenever its cell does not exist or the text of its cell does not begin
\* with a number; a text that begins with a number and goes on with other
\* characters gives that number ("11x" gives 11).
C14_ZeroWithoutLeadingNumber ==
    JustRead =>
        \A k \in DOMAIN LastRows : \A fc \in NumberCells :
            LET cells == LastRows[k]
                x     == LastRecords[k][fc[1]]
            IN  /\ IsNumber(x)
                /\ (~HasCell(cells, fc[2]) \/ ~StartsWithNumber(cells[fc[2] + 1]))
                      => x = Zero
                /\ (HasCell(cells, fc[2]) /\ cells[fc[2] + 1] = <<"1", "1", "x">>)
                      => x = [m |-> 11, e |-> 0]

\* The paginator has read a page with a row that has an empty cell and the
\* cells "DNF" and "11x", after an event with a row that ends before cell 13.
C14_Witness ==
    /\ JustRead
    /\ \E k \in DOMAIN LastRows :
          /\ LastRows[k][5] = <<"D", "N", "F">>
          /\ LastRows[k][10] = <<>>
          /\ LastRows[k][16] = <<"1", "1", "x">>
          /\ LastRecords[k].bodyWeight = Zero
          /\ LastRecords[k].snatch2 = Zero
    /\ \E p \in RecordPositions :
          RecordAt(p).lifter = <<"a">> /\ RecordAt(p).total = Zero

\* The positions of the crawl task after the re-check of lines 66-73 passed.
PastRecheck ==
    pc \in {"evalName", "evalDate", "pgWait", "pgEval", "pgNext", "pgRewait",
            "append"}

\* C15: an ID is skipped at the race of lines 55-58 only when neither element
\* appears before both waits have timed out: when one of the two elements
\* appears within its wait the ID is not skipped there, whenever the other
\* wait fails; and an ID that shows only the error marker is skipped by the
\* re-check and gets no further.
C15_SkippedOnlyIfNeitherAppears ==
    /\ ~lateElement
    /\ PastRecheck => numPages >= 1

\* C16 as stated: the suspensions are awaited in strict order with no
\* overlap, so no wait started in an earlier step is outstanding once the
\* steps after the re-check, or the delay, have begun.
C16_NoOutstandingWait == (PastRecheck \/ pc = "delay") => ~loserPending

\* C16, amended: the crawl task awaits its suspensions one after the other,
\* with one exception: the two waits of the race run together, and the one
\* that did not settle first stays outstanding while later steps run.  A wait
\* becomes outstanding only by the race, and a navigation is awaited to its
\* end, resolved or rejected, before the task does anything else.
C16_OnlyRaceLoserOutstanding ==
    [][/\ (loserPending' /\ ~loserPending) => (pc = "race" /\ pc' # "race")
       /\ visited' # visited =>
             /\ pc = "goto"
             /\ pc' \in {"race", "catch"}
             /\ visited' = Append(visited, eventId)]_vars

\* The paginator is evaluating a page while the wait that lost the race is
\* still outstanding.
C16_Witness == pc = "pgEval" /\ loserPending

\* The step is a call of saveData that threw.
WriteThrows == saveCalls' # saveCalls /\ saved' = "failed"

\* The step is a call of saveData that returned.
WriteReturns == saveCalls' # saveCalls /\ saved' = "ok"

\* The step is the catch handler running for an exception of the write.
HandlesWrite == pc = "catch" /\ raised = "write" /\ pc' # "catch"

\* C17 as stated: when the write throws after the append, the exception is
\* caught per event and the append stays: the event is in the accumulator, the
\* file keeps the content it had, the crawl goes on with the next ID, and a
\* later write that succeeds holds the records of every accumulated event.
C17_WriteFailureKeepsFile ==
    [][/\ WriteThrows =>
             /\ pc' = "catch"
             /\ allEvents' = Append(allEvents,
                    [id |-> eventId, name |-> eventName, date |-> eventDate,
                     results |-> allResults])
             /\ file' = file
       /\ HandlesWrite =>
             /\ allEvents' = allEvents /\ file' = file
             /\ eventId' = eventId - 1
             /\ pc' \in {"goto", "ctxClose"}
       /\ WriteReturns => SameEntries(file', RecordsFrom(1)')]_vars

\* C17, amended: when the write throws after the append, the exception is
\* caught per event and the append stays: the event is in the accumulator; the
\* file keeps the content it had or is left empty; the handler changes neither
\* and the crawl goes on with the next ID unless the handler's own delay
\* throws, which ends the crawl; and a later write that succeeds holds the
\* records of every accumulated event.
C17_WriteFailureKeepsEvent ==
    [][/\ WriteThrows =>
             /\ pc' = "catch"
             /\ allEvents' = Append(allEvents,
                    [id |-> eventId, name |-> eventName, date |-> eventDate,
                     results |-> allResults])
             /\ file' \in {file, <<>>}
       /\ HandlesWrite =>
             /\ allEvents' = allEvents /\ file' = file
             /\ \/ eventId' = eventId - 1 /\ pc' \in {"goto", "ctxClose"}
                \/ eventId' = eventId /\ pc' = "outerCatch"
                      /\ error' = "catchDelay"
       /\ WriteReturns => SameEntries(file', RecordsFrom(1)')]_vars

\* The write for the first event threw and left the file without its
\* records; the event is in the accumulator, the crawl went on, and the
\* paginator has returned the records of the next event.
C17_Witness ==
    /\ pc = "append"
    /\ ShouldAppend(allResults)
    /\ Len(allEvents) = 1
    /\ allEvents[1].id = eventId + 1
    /\ ~SameEntries(file, RecordsFrom(1))

\* C18: the accumulator only grows: a step leaves it as it is or adds one
\* event at its end, so that no event is removed, replaced or moved; the IDs
\* of its events are strictly descending in the order of the appends and lie
\* between END_ID and START_ID; and it is empty until the first navigation
\* of the run, whatever the output file holds.
C18_AccumulatorOnlyGrows ==
    /\ [](/\ \A i \in DOMAIN allEvents :
                allEvents[i].id >= END_ID /\ allEvents[i].id <= START_ID
          /\ \A i, j \in DOMAIN allEvents :
                i < j => allEvents[i].id > allEvents[j].id
          /\ visited = <<>> => allEvents = <<>>)
    /\ [][\/ allEvents' = allEvents
          \/ /\ Len(allEvents') = Len(allEvents) + 1
             /\ SubSeq(allEvents', 1, Len(allEvents)) = allEvents]_vars

\* The run has ended with two events appended, the higher ID first.
C18_Witness ==
    /\ Len(allEvents) = 2
    /\ allEvents[1].id = START_ID
    /\ allEvents[2].id = START_ID - 1
    /\ pc = "exited"

\* The positions of the crawl task inside the loop of the paginator.
InPaginator == {"pgWait", "pgEval", "pgNext", "pgRewait"}

====
